---- MODULE Spec2Model ----
(***************************************************************************)
(* Ticket workflow of the customer-support back office:                    *)
(*   backend/app/services/tickets_service.py  (TicketsService)             *)
(*   backend/app/api/tickets.py               (the /tickets endpoints)     *)
(*   backend/app/api/appointments.py          (the public booking)         *)
(* The relational store is modelled by the tables tickets, ticket_images,  *)
(* ticket_events and technicians.  One action is one HTTP request handled  *)
(* from its first query to its response; Spec handles requests one at a    *)
(* time, SpecConc splits assign and status change into their read, check   *)
(* and write steps so that two requests may interleave.                    *)
(* updated_at and the customer columns of a ticket take no part in any     *)
(* decision of the code and are not tracked.                               *)
(***************************************************************************)
EXTENDS Integers, Sequences, FiniteSets, TLC

VARIABLES technicians, tickets, images, events, now, resp, reqs,
          users, permissions, roles, user_roles, session_tokens

vars == <<technicians, tickets, images, events, now, resp, reqs,
          users, permissions, roles, user_roles, session_tokens>>

(* The tables of accounts: users, permissions, roles with role_permissions,
   user_roles, session_tokens *)
accounts == <<users, permissions, roles, user_roles, session_tokens>>

(* The tables of the service desk, the clock and the open requests *)
desk == <<technicians, tickets, images, events, now, reqs>>

----------------------------------------------------------------------------
(* Bounds of the model *)

MaxVersion == 4
MaxEvents == 5
MaxImages == 1
MaxDay == 8
MaxSessions == 3
MaxTokens == 4

(* Program constants *)

WorkloadDays == 7
DefaultVersion == 1

----------------------------------------------------------------------------
(* Values *)

NULL == "NULL"
NoTime == -1

BOOKED == "BOOKED"
CONFIRMED == "CONFIRMED"
ASSIGNED == "ASSIGNED"
IN_PROGRESS == "IN_PROGRESS"
COMPLETED == "COMPLETED"
CANCELED == "CANCELED"

TicketStatus == {BOOKED, CONFIRMED, ASSIGNED, IN_PROGRESS, COMPLETED, CANCELED}

RECEIPT == "RECEIPT"

ImageType == {RECEIPT, "BEFORE", "AFTER", "PARTS"}

TicketIds == {1}
TechIds == {"t1", "t2"}
Centers == {"c1"}
Users == {"u1"}
ReqIds == {"r1", "r2"}

----------------------------------------------------------------------------
(* Accounts *)

UserIds == {1}
RoleIds == {1, 2, 3}
RoleNames == {"admin", "agent", "custom"}

(* No caller: the request carries no access token, or one that verify_token
   refuses *)
Anonymous == 0

(* The permission codes of the model, out of PERMISSIONS *)
ALL_PERMISSIONS == {"users.read", "roles.write", "tickets.write"}

(* A code that is not in the permissions table *)
UnknownCode == "reports.read"

(* SYSTEM_ROLE_CORE_PERMISSIONS, on the codes and system roles of the model *)
SYSTEM_ROLE_CORE_PERMISSIONS ==
    [n \in {"admin", "agent"} |->
        IF n = "admin" THEN ALL_PERMISSIONS ELSE {"tickets.write"}]

Descriptions == {"d0", "d1"}

(* A row of roles with its role_permissions; NoRole where the id is free *)
NoRole == [name |-> NULL, description |-> NULL, is_system |-> FALSE, permissions |-> {}]

Role(name, description, is_system, codes) ==
    [name |-> name, description |-> description, is_system |-> is_system,
     permissions |-> codes]

(* The store as scripts/seed_rbac_v2 leaves it: every permission, the system
   roles with their core permissions, and the administrator holding admin *)
SeededRoles ==
    [r \in RoleIds |->
        CASE r = 1 -> Role("admin", "d0", TRUE, SYSTEM_ROLE_CORE_PERMISSIONS["admin"])
          [] r = 2 -> Role("agent", "d0", TRUE, SYSTEM_ROLE_CORE_PERMISSIONS["agent"])
          [] OTHER -> NoRole]

(* A row of users with the column defaults of the User model: 2FA not
   enabled, no secret *)
UserRow(is_active) ==
    [is_active |-> is_active, is_2fa_enabled |-> FALSE, twofa_secret |-> NULL]

SeededAccounts ==
    /\ users = [u \in UserIds |-> UserRow(TRUE)]
    /\ permissions = ALL_PERMISSIONS
    /\ roles = SeededRoles
    /\ user_roles = [u \in UserIds |-> IF u = 1 THEN {1} ELSE {}]
    /\ session_tokens = <<>>

(* The store after Base.metadata.create_all alone: users registered, no
   permission, no role *)
BareAccounts ==
    /\ users = [u \in UserIds |-> UserRow(TRUE)]
    /\ permissions = {}
    /\ roles = [r \in RoleIds |-> NoRole]
    /\ user_roles = [u \in UserIds |-> {}]
    /\ session_tokens = <<>>

----------------------------------------------------------------------------
(* TicketsService.ALLOWED_TRANSITIONS and validate_status_transition *)

(* Mutant: COMPLETED is given a way out *)
ALLOWED_TRANSITIONS_reopen ==
    [s \in TicketStatus |->
        CASE s = BOOKED      -> {CONFIRMED, CANCELED}
          [] s = CONFIRMED   -> {ASSIGNED, CANCELED}
          [] s = ASSIGNED    -> {IN_PROGRESS, CONFIRMED, CANCELED}
          [] s = IN_PROGRESS -> {COMPLETED, ASSIGNED, CANCELED}
          [] s = COMPLETED   -> {IN_PROGRESS}
          [] s = CANCELED    -> {}]

(* Mutant: CONFIRMED may go back to BOOKED *)
ALLOWED_TRANSITIONS_rebook ==
    [s \in TicketStatus |->
        CASE s = BOOKED      -> {CONFIRMED, CANCELED}
          [] s = CONFIRMED   -> {ASSIGNED, BOOKED, CANCELED}
          [] s = ASSIGNED    -> {IN_PROGRESS, CONFIRMED, CANCELED}
          [] s = IN_PROGRESS -> {COMPLETED, ASSIGNED, CANCELED}
          [] s = COMPLETED   -> {}
          [] s = CANCELED    -> {}]

ALLOWED_TRANSITIONS ==
    [s \in TicketStatus |->
        CASE s = BOOKED      -> {CONFIRMED, CANCELED}
          [] s = CONFIRMED   -> {ASSIGNED, CANCELED}
          [] s = ASSIGNED    -> {IN_PROGRESS, CONFIRMED, CANCELED}
          [] s = IN_PROGRESS -> {COMPLETED, ASSIGNED, CANCELED}
          [] s = COMPLETED   -> {}
          [] s = CANCELED    -> {}]

(* Mutant: every transition passes *)
validate_status_transition_any(current_status, new_status) ==
    new_status \in TicketStatus

validate_status_transition(current_status, new_status) ==
    new_status \in ALLOWED_TRANSITIONS[current_status]

(* get_ticket_by_id: the row, when there is one *)
get_ticket_by_id(ticket_id) == ticket_id \in DOMAIN tickets

(* create_ticket_event: the row added to ticket_events (ticket_id is the key
   of the log it is appended to); details is the tuple of the values the
   JSON blob carries, empty for no details *)
(* Mutant: the actor is not recorded *)
create_ticket_event_anonymous(action, actor_user_id, details) ==
    [action |-> action, actor_user_id |-> NULL, details |-> details]

create_ticket_event(action, actor_user_id, details) ==
    [action |-> action, actor_user_id |-> actor_user_id, details |-> details]


(* A response: the status the service logic yields (svc) and the HTTP status
   the endpoint answers with (code). *)
Response(op, ticket_id, svc, code) ==
    [op |-> op, ticket_id |-> ticket_id, svc |-> svc, code |-> code]

(* AuditService has no method log_async: the call the ticket endpoints make
   after the service has committed raises AttributeError, and the request is
   answered 500 Internal Server Error. *)
log_async(svc) == IF svc = 200 THEN 500 ELSE svc

----------------------------------------------------------------------------
(* Technician selection *)

(* get_available_technicians: active technicians, of the center when given *)
get_available_technicians(center_id) ==
    {k \in TechIds :
        /\ technicians[k].is_active
        /\ (center_id # NULL => technicians[k].center_id = center_id)}

(* get_technician_workload: ASSIGNED / IN_PROGRESS tickets of the technician
   created within the trailing window *)
get_technician_workload(technician_id) ==
    Cardinality({t \in DOMAIN tickets :
        /\ tickets[t].technician_id = technician_id
        /\ tickets[t].status \in {ASSIGNED, IN_PROGRESS}
        /\ tickets[t].created_at >= now - WorkloadDays})

(* float('inf'): above every workload *)
Infinity == Len(tickets) + 1

(* The query has no ORDER BY: the rows come in an order the store chooses *)
RowOrders(S) ==
    {o \in [1..Cardinality(S) -> S] : \A i, j \in DOMAIN o : i # j => o[i] # o[j]}

(* Mutant: min_workload is never lowered, the last row wins *)
auto_assign_loop_last(rows, i, best_technician, min_workload) ==
    IF Len(rows) = 0 THEN best_technician ELSE rows[Len(rows)]

(* The loop of auto_assign_technician over the rows from position i on *)
RECURSIVE auto_assign_loop(_, _, _, _)
auto_assign_loop(rows, i, best_technician, min_workload) ==
    IF i > Len(rows) THEN best_technician
    ELSE LET workload == get_technician_workload(rows[i])
         IN  IF workload < min_workload
             THEN auto_assign_loop(rows, i + 1, rows[i], workload)
             ELSE auto_assign_loop(rows, i + 1, best_technician, min_workload)

(* auto_assign_technician, for the rows get_available_technicians returned *)
auto_assign_technician(rows) ==
    IF Len(rows) = 0 THEN NULL
    ELSE auto_assign_loop(rows, 1, NULL, Infinity)

----------------------------------------------------------------------------
(* The state after start-up: empty ticket tables; the technicians table is
   maintained outside the application (no endpoint writes it). *)

TechnicianRows == [is_active : BOOLEAN, center_id : Centers \cup {NULL}]

NoResponse == Response("none", 0, 0, 0)

NoRow ==
    [status |-> NULL, center_id |-> NULL, technician_id |-> NULL,
     created_at |-> NoTime, completed_at |-> NoTime, version |-> 0]

(* A request in flight: its inputs, the row its session read, the technician
   it settled on, and its answer *)
IdleReq ==
    [pc |-> "idle", op |-> "none", ticket_id |-> 0, version |-> 0,
     technician_id |-> NULL, auto_assign |-> FALSE, status |-> NULL,
     user |-> NULL, row |-> NoRow, technician |-> NULL, svc |-> 0]

IdleReqs == [r \in ReqIds |-> IdleReq]

(* Technicians as scripts/seed_tickets creates them (active, no center), one
   of them deactivated since *)
SeededTechnicians ==
    [k \in TechIds |-> [is_active |-> (k = "t1"), center_id |-> NULL]]

Init ==
    /\ technicians = SeededTechnicians
    /\ tickets = <<>>
    /\ images = <<>>
    /\ events = <<>>
    /\ now = 0
    /\ resp = NoResponse
    /\ reqs = IdleReqs
    /\ SeededAccounts

(* A row of tickets with the column defaults of the Ticket model: status
   BOOKED, version 1, no technician, no completion time.  scripts/seed_tickets
   inserts its BOOKED ticket this way, without any event. *)
NewTicket(center_id) ==
    [status |-> BOOKED, center_id |-> center_id, technician_id |-> NULL,
     created_at |-> now, completed_at |-> NoTime, version |-> DefaultVersion]

InsertTicket(center_id) ==
    /\ Len(tickets) < Cardinality(TicketIds)
    /\ tickets' = Append(tickets, NewTicket(center_id))
    /\ images' = Append(images, <<>>)
    /\ events' = Append(events, <<>>)
    /\ resp' = Response("insert", Len(tickets) + 1, 200, 200)
    /\ UNCHANGED <<technicians, now, reqs, accounts>>

(* submit_booking (POST /public/booking): the ticket is added to the session
   and the event is built from ticket.id, which is still None because the
   primary-key default is applied at flush ("Commit first to ensure ticket.id
   is available", scripts/seed_tickets.py).  The event row has no ticket_id,
   the commit violates NOT NULL on ticket_events.ticket_id, the handler rolls
   back and answers 500: nothing is stored. *)
submit_booking ==
    /\ resp' = Response("booking", 0, 500, 500)
    /\ UNCHANGED <<technicians, tickets, images, events, now, reqs, accounts>>

----------------------------------------------------------------------------
(* POST /tickets/{id}/confirm *)

(* TicketsService.confirm_ticket: the status it ends with *)
confirm_result(ticket_id) ==
    IF ~get_ticket_by_id(ticket_id) THEN 404
    ELSE IF ~validate_status_transition(tickets[ticket_id].status, CONFIRMED) THEN 400
    ELSE 200

confirm_ticket(ticket_id, user) ==
    LET svc == confirm_result(ticket_id) IN
    /\ IF svc = 200
       THEN /\ Len(events[ticket_id]) < MaxEvents
            /\ tickets' = [tickets EXCEPT ![ticket_id].status = CONFIRMED]
            /\ events' = [events EXCEPT ![ticket_id] =
                   Append(@, create_ticket_event("CONFIRM", user, <<>>))]
       ELSE UNCHANGED <<tickets, events>>
    /\ resp' = Response("confirm", ticket_id, svc, log_async(svc))
    /\ UNCHANGED <<technicians, images, now, reqs, accounts>>

----------------------------------------------------------------------------
(* POST /tickets/{id}/assign *)

(* The checks of TicketsService.assign_ticket on the row it read, in the
   order the code makes them; technician is the technician the request ends
   up with (the auto-assigned one, or the requested id).
   assign_check_any_technician is the mutant that accepts an inactive
   technician; assign_check_status_first is the mutant that checks the
   transition before the version. *)
assign_check_any_technician(row, version, status_ok, auto_assign, technician_id, technician) ==
    IF row.version # version THEN 409
    ELSE IF ~status_ok THEN 400
    ELSE IF auto_assign
         THEN (IF technician = NULL THEN 400 ELSE 200)
         ELSE IF technician_id = NULL THEN 400
         ELSE IF ~(technician_id \in TechIds) THEN 404
         ELSE 200

assign_check_status_first(row, version, status_ok, auto_assign, technician_id, technician) ==
    IF ~status_ok THEN 400
    ELSE IF row.version # version THEN 409
    ELSE IF auto_assign
         THEN (IF technician = NULL THEN 400 ELSE 200)
         ELSE IF technician_id = NULL THEN 400
         ELSE IF ~(technician_id \in TechIds /\ technicians[technician_id].is_active)
              THEN 404
         ELSE 200

assign_check(row, version, status_ok, auto_assign, technician_id, technician) ==
    IF row.version # version THEN 409
    ELSE IF ~status_ok THEN 400
    ELSE IF auto_assign
         THEN (IF technician = NULL THEN 400 ELSE 200)
         ELSE IF technician_id = NULL THEN 400
         ELSE IF ~(technician_id \in TechIds /\ technicians[technician_id].is_active)
              THEN 404
         ELSE 200

assign_result(ticket_id, technician_id, auto_assign, version, technician) ==
    IF ~get_ticket_by_id(ticket_id) THEN 404
    ELSE assign_check(tickets[ticket_id], version,
             validate_status_transition(tickets[ticket_id].status, ASSIGNED),
             auto_assign, technician_id, technician)

(* The row assign_ticket writes *)
assigned_row(row, technician) ==
    [row EXCEPT !.status = ASSIGNED,
                !.technician_id = technician,
                !.version = row.version + 1]

(* The ASSIGN event: technician_id and assignment_method of event_details *)
assign_event(user, technician, auto_assign) ==
    create_ticket_event("ASSIGN", user,
        <<technician, IF auto_assign THEN "auto" ELSE "manual">>)

assign_ticket(ticket_id, technician_id, auto_assign, version, user) ==
    \E rows \in RowOrders(get_available_technicians(
                    IF get_ticket_by_id(ticket_id)
                    THEN tickets[ticket_id].center_id ELSE NULL)) :
      LET technician == IF auto_assign THEN auto_assign_technician(rows)
                        ELSE technician_id
          svc == assign_result(ticket_id, technician_id, auto_assign, version,
                               technician)
      IN
      /\ IF svc = 200
         THEN /\ tickets[ticket_id].version < MaxVersion
              /\ Len(events[ticket_id]) < MaxEvents
              /\ tickets' = [tickets EXCEPT ![ticket_id] = assigned_row(@, technician)]
              /\ events' = [events EXCEPT ![ticket_id] =
                     Append(@, assign_event(user, technician, auto_assign))]
         ELSE UNCHANGED <<tickets, events>>
      /\ resp' = Response("assign", ticket_id, svc, log_async(svc))
      /\ UNCHANGED <<technicians, images, now, reqs, accounts>>

----------------------------------------------------------------------------
(* POST /tickets/{id}/images *)

(* file_ok: StorageService.save_ticket_image accepts and stores the file *)
upload_result(ticket_id, file_ok) ==
    IF ~get_ticket_by_id(ticket_id) THEN 404
    ELSE IF ~file_ok THEN 400
    ELSE 200

(* The TicketImage row of an upload: its type is always RECEIPT.
   TicketImage_before is the mutant that stores another type. *)
TicketImage_before(user) == [type |-> "BEFORE", uploaded_by_user_id |-> user]

TicketImage(user) == [type |-> RECEIPT, uploaded_by_user_id |-> user]

upload_ticket_image(ticket_id, file_ok, user) ==
    LET svc == upload_result(ticket_id, file_ok) IN
    /\ IF svc = 200
       THEN /\ Len(images[ticket_id]) < MaxImages
            /\ Len(events[ticket_id]) < MaxEvents
            /\ images' = [images EXCEPT ![ticket_id] =
                   Append(@, TicketImage(user))]
            /\ events' = [events EXCEPT ![ticket_id] =
                   Append(@, create_ticket_event("UPLOAD_RECEIPT", user, <<"image">>))]
       ELSE UNCHANGED <<images, events>>
    /\ resp' = Response("upload", ticket_id, svc, log_async(svc))
    /\ UNCHANGED <<technicians, tickets, now, reqs, accounts>>

----------------------------------------------------------------------------
(* POST /tickets/{id}/complete *)

receipt_count(ticket_id) ==
    Cardinality({i \in DOMAIN images[ticket_id] : images[ticket_id][i].type = RECEIPT})

(* TicketsService.complete_ticket: the status it ends with *)
complete_result(ticket_id) ==
    IF ~get_ticket_by_id(ticket_id) THEN 404
    ELSE IF tickets[ticket_id].status \notin {ASSIGNED, IN_PROGRESS} THEN 400
    ELSE IF receipt_count(ticket_id) = 0 THEN 400
    ELSE 200

complete_ticket(ticket_id, user) ==
    LET svc == complete_result(ticket_id) IN
    /\ IF svc = 200
       THEN /\ Len(events[ticket_id]) < MaxEvents
            /\ tickets' = [tickets EXCEPT ![ticket_id].status = COMPLETED,
                                          ![ticket_id].completed_at = now]
            /\ events' = [events EXCEPT ![ticket_id] =
                   Append(@, create_ticket_event("COMPLETE", user, <<>>))]
       ELSE UNCHANGED <<tickets, events>>
    /\ resp' = Response("complete", ticket_id, svc, log_async(svc))
    /\ UNCHANGED <<technicians, images, now, reqs, accounts>>

----------------------------------------------------------------------------
(* PATCH /tickets/{id}/status *)

(* The checks of update_ticket_status on the row it read; 200 with a status
   absent (NULL) or equal to the current one is the answer that changes
   nothing *)
status_check(row, status, version) ==
    IF row.version # version THEN 409
    ELSE IF status # NULL /\ status # row.status
              /\ ~validate_status_transition(row.status, status) THEN 400
    ELSE 200

status_result(ticket_id, status, version) ==
    IF ~get_ticket_by_id(ticket_id) THEN 404
    ELSE status_check(tickets[ticket_id], status, version)

(* The row update_ticket_status writes *)
status_row(row, status) ==
    [row EXCEPT !.status = status, !.version = row.version + 1]

update_ticket_status(ticket_id, status, version, user) ==
    LET svc == status_result(ticket_id, status, version)
        changes == svc = 200 /\ status # NULL /\ status # tickets[ticket_id].status
    IN
    /\ IF changes
       THEN /\ tickets[ticket_id].version < MaxVersion
            /\ Len(events[ticket_id]) < MaxEvents
            /\ tickets' = [tickets EXCEPT ![ticket_id] = status_row(@, status)]
            /\ events' = [events EXCEPT ![ticket_id] =
                   Append(@, create_ticket_event("STATUS_CHANGE", user,
                                 <<tickets[ticket_id].status, status>>))]
       ELSE UNCHANGED <<tickets, events>>
    /\ resp' = Response("status", ticket_id, svc,
                        IF changes THEN log_async(svc) ELSE svc)
    /\ UNCHANGED <<technicians, images, now, reqs, accounts>>

----------------------------------------------------------------------------
(* The clock of datetime.utcnow(), in days *)
Tick ==
    /\ now < MaxDay
    /\ now' = now + 1
    /\ UNCHANGED <<technicians, tickets, images, events, resp, reqs, accounts>>

Versions == 1..MaxVersion

Next ==
    \/ InsertTicket(NULL)
    \/ submit_booking
    \/ \E t \in TicketIds, u \in Users : confirm_ticket(t, u)
    \/ \E t \in TicketIds, k \in TechIds \cup {NULL}, a \in BOOLEAN,
          v \in Versions, u \in Users : assign_ticket(t, k, a, v, u)
    \/ \E t \in TicketIds, f \in BOOLEAN, u \in Users : upload_ticket_image(t, f, u)
    \/ \E t \in TicketIds, u \in Users : complete_ticket(t, u)
    \/ \E t \in TicketIds, s \in TicketStatus \cup {NULL},
          v \in Versions, u \in Users : update_ticket_status(t, s, v, u)

Spec == Init /\ [][Next]_vars

----------------------------------------------------------------------------
(* Requests handled by separate workers of the application (the app is also
   wrapped for a function-per-request deployment, functions_disabled/api.py):
   assign_ticket and update_ticket_status read the row, check it, and commit
   an UPDATE that is keyed by the ticket id alone.  The model has no
   version_id_col and the queries take no row lock, so the steps of two
   requests interleave freely between the read and the commit. *)

(* get_ticket_by_id: the session loads the row *)
ReadTicket(r, op, ticket_id, version, technician_id, auto_assign, status, user) ==
    /\ reqs[r].pc = "idle"
    /\ reqs' = [reqs EXCEPT ![r] =
          [IdleReq EXCEPT
              !.pc = IF get_ticket_by_id(ticket_id) THEN "read" ELSE "done",
              !.op = op, !.ticket_id = ticket_id, !.version = version,
              !.technician_id = technician_id, !.auto_assign = auto_assign,
              !.status = status, !.user = user,
              !.row = IF get_ticket_by_id(ticket_id) THEN tickets[ticket_id] ELSE NoRow,
              !.svc = IF get_ticket_by_id(ticket_id) THEN 0 ELSE 404]]
    /\ UNCHANGED <<technicians, tickets, images, events, now, resp, accounts>>

(* The version check, the transition check and the choice of the technician,
   on the row the session holds *)
CheckRequest(r) ==
    LET q == reqs[r] IN
    /\ q.pc = "read"
    /\ \E rows \in RowOrders(get_available_technicians(q.row.center_id)) :
          LET technician == IF q.auto_assign THEN auto_assign_technician(rows)
                            ELSE q.technician_id
              svc == IF q.op = "assign"
                     THEN assign_check(q.row, q.version,
                              validate_status_transition(q.row.status, ASSIGNED),
                              q.auto_assign, q.technician_id, technician)
                     ELSE status_check(q.row, q.status, q.version)
              writes == /\ svc = 200
                        /\ (q.op = "status" =>
                               q.status # NULL /\ q.status # q.row.status)
          IN  reqs' = [reqs EXCEPT ![r].pc = IF writes THEN "checked" ELSE "done",
                                   ![r].technician = technician,
                                   ![r].svc = svc]
    /\ UNCHANGED <<technicians, tickets, images, events, now, resp, accounts>>

(* db.commit(): the UPDATE of the columns the request set, computed from the
   row the session read, and the INSERT of the event *)
WriteRequest(r) ==
    LET q == reqs[r]
        t == q.ticket_id
        new == IF q.op = "assign" THEN assigned_row(q.row, q.technician)
               ELSE status_row(q.row, q.status)
    IN
    /\ q.pc = "checked"
    /\ q.row.version < MaxVersion
    /\ Len(events[t]) < MaxEvents
    /\ tickets' = [tickets EXCEPT ![t].status = new.status,
                                  ![t].technician_id = new.technician_id,
                                  ![t].version = new.version]
    /\ events' = [events EXCEPT ![t] = Append(@,
          IF q.op = "assign" THEN assign_event(q.user, q.technician, q.auto_assign)
          ELSE create_ticket_event("STATUS_CHANGE", q.user,
                                   <<q.row.status, q.status>>))]
    /\ reqs' = [reqs EXCEPT ![r].pc = "committed"]
    /\ UNCHANGED <<technicians, images, now, resp, accounts>>

NextConc ==
    \/ InsertTicket(NULL)
    \/ \E t \in TicketIds, u \in Users : confirm_ticket(t, u)
    \/ \E r \in ReqIds, t \in TicketIds, v \in Versions, u \in Users :
          \/ \E k \in TechIds \cup {NULL}, a \in BOOLEAN :
                ReadTicket(r, "assign", t, v, k, a, NULL, u)
          \/ \E s \in TicketStatus \cup {NULL} :
                ReadTicket(r, "status", t, v, NULL, FALSE, s, u)
    \/ \E r \in ReqIds : CheckRequest(r)
    \/ \E r \in ReqIds : WriteRequest(r)

SpecConc == Init /\ [][NextConc]_vars

----------------------------------------------------------------------------
(* Automatic assignment over a populated store.  The tickets table holds
   tickets the workflow has brought to CONFIRMED, ASSIGNED, IN_PROGRESS or
   CANCELED, of every age with respect to the workload window and with or
   without a center; the technicians are active or not, with or without a
   center.  The requests are automatic assignments, and the clock advances. *)

AssignTicketIds == {1, 2}

(* created_at of the stored tickets: WorkloadDays, WorkloadDays - 1 and 0 days
   before the first request *)
StoredDays == {0, 1, WorkloadDays}

(* A ticket as the workflow leaves it, with its event log:
   confirm; then assign to k; then status change to IN_PROGRESS or CANCELED *)
StoredTicket(status, k, version, center_id, created_at) ==
    [status |-> status, center_id |-> center_id, technician_id |-> k,
     created_at |-> created_at, completed_at |-> NoTime, version |-> version]

StoredLog(status, k) ==
    LET u == CHOOSE x \in Users : TRUE
        confirmed == <<create_ticket_event("CONFIRM", u, <<>>)>>
        assigned == Append(confirmed, assign_event(u, k, FALSE))
    IN  CASE status = CONFIRMED -> confirmed
          [] status = ASSIGNED -> assigned
          [] OTHER -> Append(assigned,
                 create_ticket_event("STATUS_CHANGE", u, <<ASSIGNED, status>>))

StoredShapes ==
    {<<CONFIRMED, NULL, DefaultVersion>>}
    \cup {<<ASSIGNED, k, DefaultVersion + 1>> : k \in TechIds}
    \cup {<<s, k, DefaultVersion + 2>> : s \in {IN_PROGRESS, CANCELED}, k \in TechIds}

InitAssign ==
    /\ technicians \in [TechIds -> TechnicianRows]
    /\ \E shape \in [AssignTicketIds -> StoredShapes],
          center \in [AssignTicketIds -> Centers \cup {NULL}],
          day \in [AssignTicketIds -> StoredDays] :
          /\ tickets = [t \in AssignTicketIds |->
                StoredTicket(shape[t][1], shape[t][2], shape[t][3], center[t], day[t])]
          /\ events = [t \in AssignTicketIds |-> StoredLog(shape[t][1], shape[t][2])]
    /\ images = [t \in AssignTicketIds |-> <<>>]
    /\ now = WorkloadDays
    /\ resp = NoResponse
    /\ reqs = IdleReqs
    /\ SeededAccounts

NextAssign ==
    \/ \E t \in AssignTicketIds, v \in Versions, u \in Users :
          assign_ticket(t, NULL, TRUE, v, u)
    \/ Tick

SpecAssign == InitAssign /\ [][NextAssign]_vars

----------------------------------------------------------------------------
(* Assignment against every technicians table.  Each technician is active or
   not, with or without a center; the request names a technician of the
   table, one that is not in it, or none, or asks for automatic assignment. *)

UnknownTech == "t0"

InitTech ==
    /\ technicians \in [TechIds -> TechnicianRows]
    /\ tickets = <<>>
    /\ images = <<>>
    /\ events = <<>>
    /\ now = 0
    /\ resp = NoResponse
    /\ reqs = IdleReqs
    /\ SeededAccounts

NextTech ==
    \/ \E c \in Centers \cup {NULL} : InsertTicket(c)
    \/ \E t \in TicketIds, u \in Users : confirm_ticket(t, u)
    \/ \E t \in TicketIds, k \in TechIds \cup {NULL, UnknownTech}, a \in BOOLEAN,
          v \in Versions, u \in Users : assign_ticket(t, k, a, v, u)

SpecTech == InitTech /\ [][NextTech]_vars

----------------------------------------------------------------------------
(* RBACService and the dependencies of core/deps.py *)

RoleExists(role_id) == role_id \in RoleIds /\ roles[role_id] # NoRole

(* user_has_role: some role of the user has this name *)
user_has_role(user, role_name) ==
    \E r \in user_roles[user] : roles[r].name = role_name

(* get_user_permissions: the codes of all roles of the user *)
get_user_permissions(user) ==
    UNION {roles[r].permissions : r \in user_roles[user]}

(* aggregate_permissions: the user is loaded again with roles and
   permissions, and the codes are collected role by role.
   aggregate_permissions_one_role is the mutant that stops after one role. *)
aggregate_permissions_one_role(user) ==
    IF user_roles[user] = {} THEN {}
    ELSE roles[CHOOSE r \in user_roles[user] : TRUE].permissions

aggregate_permissions(user) ==
    {c \in ALL_PERMISSIONS \cup {UnknownCode} :
        \E r \in user_roles[user] : c \in roles[r].permissions}

(* user_has_permissions: the admin role passes, else every code must be among
   the user's permissions *)
user_has_permissions(user, permission_codes) ==
    \/ user_has_role(user, "admin")
    \/ permission_codes \subseteq get_user_permissions(user)

(* validate_permission_codes: every code is in the permissions table *)
validate_permission_codes(codes) == codes \subseteq permissions

(* get_current_user_from_token and get_current_user: the user of the access
   token, when there is one and the user is active; else 401.
   Authenticated_inactive is the mutant that does not look at is_active. *)
Authenticated_inactive(caller) == caller \in DOMAIN users

Authenticated(caller) == caller \in DOMAIN users /\ users[caller].is_active

(* require_permissions(permissions): 401, 403 or the user passes (200) *)
require_permissions(caller, codes) ==
    IF ~Authenticated(caller) THEN 401
    ELSE IF ~user_has_permissions(caller, codes) THEN 403
    ELSE 200

(* require_perms(codes, mode): 401, 403 or the user passes (200) *)
require_perms(caller, codes, mode) ==
    IF ~Authenticated(caller) THEN 401
    ELSE IF mode = "all" /\ ~(codes \subseteq aggregate_permissions(caller)) THEN 403
    ELSE IF mode = "any" /\ codes \cap aggregate_permissions(caller) = {} THEN 403
    ELSE 200

(* A request to an endpoint that reads only, behind one of the dependencies:
   GET /admin/roles (require_permissions) or GET /admin/users
   (require_users_read = require_perms) *)
read_request(caller, dependency, codes) ==
    /\ resp' = IF dependency = "require_permissions"
               THEN Response(dependency, caller, require_permissions(caller, codes),
                             require_permissions(caller, codes))
               ELSE Response(dependency, caller, require_perms(caller, codes, "all"),
                             require_perms(caller, codes, "all"))
    /\ UNCHANGED <<desk, accounts>>

(* The id the roles table gives a new row *)
NextRoleId ==
    IF \A r \in RoleIds : roles[r] = NoRole THEN 1
    ELSE 1 + CHOOSE r \in RoleIds :
                 roles[r] # NoRole /\ \A q \in RoleIds : roles[q] # NoRole => q <= r

(* Role.name is unique: another row has this name.
   NameTaken_no_index is the mutant without the unique index. *)
NameTaken_no_index(name, except_id) == FALSE

NameTaken(name, except_id) ==
    \E r \in RoleIds \ {except_id} : roles[r] # NoRole /\ roles[r].name = name

(* The row RBACService.create_role builds from a RoleCreate: name and
   description are taken, is_system is not read and the column default
   (False) applies, and the permissions are those that exist among the codes.
   new_role_as_requested is the mutant that stores the is_system asked for. *)
new_role_as_requested(name, description, is_system, permission_codes) ==
    Role(name, description, is_system, permission_codes \cap permissions)

new_role(name, description, is_system, permission_codes) ==
    Role(name, description, FALSE, permission_codes \cap permissions)

(* create_role (POST /admin/roles): the role is added; a name already in the
   table breaks the unique index at commit, and the endpoint turns every
   exception into 400 *)
create_role(name, description, is_system, permission_codes) ==
    /\ NextRoleId \in RoleIds
    /\ IF NameTaken(name, 0)
       THEN /\ resp' = Response("create_role", 0, 500, 400)
            /\ UNCHANGED roles
       ELSE /\ roles' = [roles EXCEPT ![NextRoleId] =
                  new_role(name, description, is_system, permission_codes)]
            /\ resp' = Response("create_role", NextRoleId, 200, 200)
    /\ UNCHANGED <<desk, users, permissions, user_roles, session_tokens>>

(* An optional permission_codes of RoleUpdate: <<>> is None, <<codes>> a list *)
Given(opt) == Len(opt) = 1

(* update_role: what the service answers.  None (404) for an unknown id;
   400 for a system role renamed, for a system role with core permissions
   whose new codes omit one, and for a code that does not exist; 500 when the
   new name is another role's and the unique index breaks the commit.
   update_role_result_no_core is the mutant without the check of the core
   permissions. *)
update_role_result_no_core(role_id, name, permission_codes) ==
    IF ~RoleExists(role_id) THEN 404
    ELSE IF /\ roles[role_id].is_system
            /\ name # NULL /\ name # roles[role_id].name THEN 400
    ELSE IF Given(permission_codes) /\ ~validate_permission_codes(permission_codes[1])
         THEN 400
    ELSE IF name # NULL /\ NameTaken(name, role_id) THEN 500
    ELSE 200

update_role_result(role_id, name, permission_codes) ==
    IF ~RoleExists(role_id) THEN 404
    ELSE IF /\ roles[role_id].is_system
            /\ name # NULL /\ name # roles[role_id].name THEN 400
    ELSE IF /\ roles[role_id].is_system
            /\ Given(permission_codes)
            /\ roles[role_id].name \in DOMAIN SYSTEM_ROLE_CORE_PERMISSIONS
            /\ ~(SYSTEM_ROLE_CORE_PERMISSIONS[roles[role_id].name] \subseteq permission_codes[1])
         THEN 400
    ELSE IF Given(permission_codes) /\ ~validate_permission_codes(permission_codes[1])
         THEN 400
    ELSE IF name # NULL /\ NameTaken(name, role_id) THEN 500
    ELSE 200

(* PATCH /admin/roles/{role_id} *)
update_role(role_id, name, description, permission_codes) ==
    LET svc == update_role_result(role_id, name, permission_codes) IN
    /\ IF svc = 200
       THEN roles' = [roles EXCEPT ![role_id] =
                [name |-> IF name # NULL THEN name ELSE @.name,
                 description |-> IF description # NULL THEN description
                                 ELSE @.description,
                 is_system |-> @.is_system,
                 permissions |-> IF Given(permission_codes)
                                 THEN permission_codes[1] \cap permissions
                                 ELSE @.permissions]]
       ELSE UNCHANGED roles
    /\ resp' = Response("update_role", role_id, svc, svc)
    /\ UNCHANGED <<desk, users, permissions, user_roles, session_tokens>>

(* role.users *)
RoleUsers(role_id) == {u \in UserIds : role_id \in user_roles[u]}

(* delete_role: False (404) for an unknown id, 400 for a system role, 409
   while users hold the role.
   delete_role_result_held is the mutant without the check of role.users,
   delete_role_result_system the one without the check of is_system. *)
delete_role_result_system(role_id) ==
    IF ~RoleExists(role_id) THEN 404
    ELSE IF RoleUsers(role_id) # {} THEN 409
    ELSE 200

delete_role_result_held(role_id) ==
    IF ~RoleExists(role_id) THEN 404
    ELSE IF roles[role_id].is_system THEN 400
    ELSE 200

delete_role_result(role_id) ==
    IF ~RoleExists(role_id) THEN 404
    ELSE IF roles[role_id].is_system THEN 400
    ELSE IF RoleUsers(role_id) # {} THEN 409
    ELSE 200

(* DELETE /admin/roles/{role_id} *)
delete_role(role_id) ==
    LET svc == delete_role_result(role_id) IN
    /\ IF svc = 200
       THEN roles' = [roles EXCEPT ![role_id] = NoRole]
       ELSE UNCHANGED roles
    /\ resp' = Response("delete_role", role_id, svc, svc)
    /\ UNCHANGED <<desk, users, permissions, user_roles, session_tokens>>

(* RBACService.assign_roles_to_user(user_id, role_ids), the definition in
   force (the second of the class): False for an unknown user, 400 when an id
   is not a role, else the user's roles are replaced *)
assign_roles_to_user(user_id, role_ids) ==
    LET svc == IF user_id \notin UserIds THEN 404
               ELSE IF \E r \in role_ids : ~RoleExists(r) THEN 400
               ELSE 200
    IN
    /\ IF svc = 200
       THEN user_roles' = [user_roles EXCEPT ![user_id] = role_ids]
       ELSE UNCHANGED user_roles
    /\ resp' = Response("assign_roles", user_id, svc, svc)
    /\ UNCHANGED <<desk, users, permissions, roles, session_tokens>>

(* POST /admin/users/{user_id}/roles as routed (assign_user_roles): it calls
   assign_roles_to_user(user, role_names), which binds to the definition
   above with a User where the id is expected and names where ids are: the
   query raises, the request ends with 500 and nothing is written *)
assign_user_roles(user_id) ==
    /\ resp' = Response("assign_user_roles", user_id,
                        IF user_id \in UserIds THEN 500 ELSE 404,
                        IF user_id \in UserIds THEN 500 ELSE 404)
    /\ UNCHANGED <<desk, accounts>>

(* The permission_codes a request may carry *)
CodeLists ==
    (SUBSET {"users.read", "tickets.write"}) \cup {ALL_PERMISSIONS, {UnknownCode}}

(* The inputs of update_role in the requests *)
NameInputs == RoleNames \cup {NULL}
DescriptionInputs == {NULL, "d1"}
CodeInputs == {<<>>} \cup {<<l>> : l \in CodeLists}

InitRbac ==
    /\ technicians = SeededTechnicians
    /\ tickets = <<>>
    /\ images = <<>>
    /\ events = <<>>
    /\ now = 0
    /\ resp = NoResponse
    /\ reqs = IdleReqs
    /\ SeededAccounts \/ BareAccounts

NextRbac ==
    \/ \E n \in RoleNames, s \in BOOLEAN, c \in CodeLists :
          create_role(n, "d0", s, c)
    \/ \E r \in RoleIds, n \in NameInputs, d \in DescriptionInputs,
          c \in CodeInputs : update_role(r, n, d, c)
    \/ \E r \in RoleIds : delete_role(r)
    \/ \E u \in UserIds, rs \in SUBSET RoleIds : assign_roles_to_user(u, rs)
    \/ \E u \in UserIds : assign_user_roles(u)
    \/ \E u \in UserIds \cup {Anonymous}, c \in ALL_PERMISSIONS,
          d \in {"require_permissions", "require_perms"} : read_request(u, d, {c})

SpecRbac == InitRbac /\ [][NextRbac]_vars

----------------------------------------------------------------------------
(* The endpoints behind their dependencies.  FastAPI resolves the dependency
   before the body of the endpoint runs: when it raises, 401 or 403 is the
   answer and the body is not entered. *)

(* The answer of an endpoint whose dependency raised: the refusal alone *)
Refusal(op, id, refused) ==
    /\ resp' = Response(op, id, refused, refused)
    /\ UNCHANGED <<desk, accounts>>

(* POST /tickets/{ticket_id}/confirm,
   Depends(require_permissions(["tickets.write"])) *)
confirm_ticket_endpoint(caller, ticket_id) ==
    LET admitted == require_permissions(caller, {"tickets.write"}) IN
    IF admitted = 200 THEN confirm_ticket(ticket_id, "u1")
    ELSE Refusal("confirm", ticket_id, admitted)

(* POST /admin/roles, Depends(require_permissions(["roles.write"])) *)
create_role_endpoint(caller, name, permission_codes) ==
    LET admitted == require_permissions(caller, {"roles.write"}) IN
    IF admitted = 200 THEN create_role(name, "d0", FALSE, permission_codes)
    ELSE Refusal("create_role", 0, admitted)

(* DELETE /admin/roles/{role_id}, Depends(require_permissions(["roles.write"])) *)
delete_role_endpoint(caller, role_id) ==
    LET admitted == require_permissions(caller, {"roles.write"}) IN
    IF admitted = 200 THEN delete_role(role_id)
    ELSE Refusal("delete_role", role_id, admitted)

(* GET /admin/users, Depends(require_users_read): the body reads only *)
get_users(caller) ==
    /\ resp' = Response("get_users", 0, require_perms(caller, {"users.read"}, "all"),
                        require_perms(caller, {"users.read"}, "all"))
    /\ UNCHANGED <<desk, accounts>>

Callers == UserIds \cup {Anonymous}

(* The seeded store, with the user active or deactivated and holding any of
   the seeded roles *)
InitGate ==
    /\ technicians = SeededTechnicians
    /\ tickets = <<>>
    /\ images = <<>>
    /\ events = <<>>
    /\ now = 0
    /\ resp = NoResponse
    /\ reqs = IdleReqs
    /\ \E active \in [UserIds -> BOOLEAN] :
          users = [u \in UserIds |-> UserRow(active[u])]
    /\ permissions = ALL_PERMISSIONS
    /\ roles = SeededRoles
    /\ user_roles \in [UserIds -> SUBSET {1, 2}]
    /\ session_tokens = <<>>

NextGate ==
    \/ \E c \in Centers : InsertTicket(c)
    \/ \E u \in Callers, t \in TicketIds : confirm_ticket_endpoint(u, t)
    \/ \E u \in Callers, n \in RoleNames, c \in CodeLists : create_role_endpoint(u, n, c)
    \/ \E u \in Callers, r \in RoleIds : delete_role_endpoint(u, r)
    \/ \E u \in Callers : get_users(u)
    \/ \E u \in UserIds, rs \in SUBSET RoleIds : assign_roles_to_user(u, rs)

SpecGate == InitGate /\ [][NextGate]_vars

----------------------------------------------------------------------------
(* AuthService: login, refresh and logout over session_tokens.  The time the
   model spans is shorter than jwt_refresh_ttl_seconds: no token and no
   session expires in it. *)

(* A refresh token: the subject of create_refresh_token and the number of the
   token among those issued *)
RefreshTokens == [sub : UserIds, n : 1..MaxTokens]

(* hash_refresh_token and verify_refresh_token_hash *)
hash_refresh_token(token) == [hashed |-> token]

verify_refresh_token_hash(token, token_hash) == token_hash = hash_refresh_token(token)

(* The number of tokens issued so far: every token issued was stored in a
   row, and a rotation stores a later one *)
LastToken ==
    IF session_tokens = <<>> THEN 0
    ELSE CHOOSE k \in 1..MaxTokens :
            /\ \E i \in DOMAIN session_tokens :
                  session_tokens[i].refresh_token_hash.hashed.n = k
            /\ \A i \in DOMAIN session_tokens :
                  session_tokens[i].refresh_token_hash.hashed.n <= k

(* create_refresh_token *)
create_refresh_token(subject) == [sub |-> subject, n |-> LastToken + 1]

(* verify_token(token, "refresh"): the token is one this server signed *)
verify_token(token) == token.n <= LastToken

(* The rows of
   query(SessionToken).filter(user_id == user_id, revoked == False) *)
Unrevoked(user_id) ==
    {i \in DOMAIN session_tokens :
        session_tokens[i].user_id = user_id /\ ~session_tokens[i].revoked}

(* _store_refresh_token *)
SessionToken(user_id, refresh_token) ==
    [user_id |-> user_id, refresh_token_hash |-> hash_refresh_token(refresh_token),
     revoked |-> FALSE]

(* The secrets pyotp.random_base32() draws, and the one-time passwords of a
   request: an OTP is the code of one secret at the time of the request, or
   six digits that are the code of none *)
Secrets == {"s1", "s2"}

Otps == Secrets \cup {"000000"}

(* The otp field of a request: absent, or six digits *)
OtpInputs == {<<>>} \cup {<<otp>> : otp \in Otps}

(* pyotp.TOTP(secret).verify(otp, valid_window=1) *)
totp_verify(secret, otp) == otp = secret

(* verify_2fa_token *)
verify_2fa_token(user, otp) ==
    IF users[user].twofa_secret = NULL THEN FALSE
    ELSE totp_verify(users[user].twofa_secret, otp)

(* authenticate_user (POST /auth/login): an active user with the right
   password, and the right OTP when 2FA is enabled, gets a new refresh token,
   stored in a new row *)
authenticate_user(user_id, password_ok) ==
    /\ Len(session_tokens) < MaxSessions
    /\ LastToken < MaxTokens
    /\ \E otp \in OtpInputs :
       IF /\ users[user_id].is_active
          /\ password_ok
          /\ users[user_id].is_2fa_enabled
                => Given(otp) /\ verify_2fa_token(user_id, otp[1])
       THEN /\ session_tokens' =
                  Append(session_tokens,
                         SessionToken(user_id, create_refresh_token(user_id)))
            /\ resp' = Response("login", LastToken + 1, 200, 200)
       ELSE /\ resp' = Response("login", 0, 401, 401)
            /\ UNCHANGED session_tokens
    /\ UNCHANGED <<desk, users, permissions, roles, user_roles>>

(* refresh_access_token (POST /auth/refresh).  The session is the first
   unrevoked row of the token's user; the query has no ORDER BY and does not
   look at the hash, so it may be any of these rows.  Only then is the hash
   compared; on success that row gets the hash of the new token. *)
refresh_access_token(refresh_token) ==
    /\ LastToken < MaxTokens
    /\ IF ~verify_token(refresh_token) \/ Unrevoked(refresh_token.sub) = {}
       THEN /\ resp' = Response("refresh", refresh_token.n, 401, 401)
            /\ UNCHANGED session_tokens
       ELSE \E i \in Unrevoked(refresh_token.sub) :
              IF /\ verify_refresh_token_hash(refresh_token,
                                              session_tokens[i].refresh_token_hash)
                 /\ users[refresh_token.sub].is_active
              THEN /\ session_tokens' = [session_tokens EXCEPT
                         ![i].refresh_token_hash =
                             hash_refresh_token(create_refresh_token(refresh_token.sub))]
                   /\ resp' = Response("refresh", refresh_token.n, 200, 200)
              ELSE /\ resp' = Response("refresh", refresh_token.n, 401, 401)
                   /\ UNCHANGED session_tokens
    /\ UNCHANGED <<desk, users, permissions, roles, user_roles>>

(* logout_user.  With a refresh token: the first unrevoked row of the user
   (any of them, as above) is revoked if its hash is the token's, else
   nothing is revoked.  Without: all rows of the user are revoked. *)
logout_user(user, refresh_token) ==
    IF Given(refresh_token)
    THEN IF Unrevoked(user) = {} THEN UNCHANGED session_tokens
         ELSE \E i \in Unrevoked(user) :
                IF verify_refresh_token_hash(refresh_token[1],
                                             session_tokens[i].refresh_token_hash)
                THEN session_tokens' = [session_tokens EXCEPT ![i].revoked = TRUE]
                ELSE UNCHANGED session_tokens
    ELSE session_tokens' =
            [i \in DOMAIN session_tokens |->
                IF i \in Unrevoked(user)
                THEN [session_tokens[i] EXCEPT !.revoked = TRUE]
                ELSE session_tokens[i]]

(* POST /auth/logout: the user of the access token, if any, is logged out
   with the refresh_token cookie; the answer is ok in every case *)
logout(caller, refresh_token) ==
    /\ IF Authenticated(caller) THEN logout_user(caller, refresh_token)
       ELSE UNCHANGED session_tokens
    /\ resp' = Response("logout", caller, 200, 200)
    /\ UNCHANGED <<desk, users, permissions, roles, user_roles>>

(* The refresh_token cookie of a request: none, or a token *)
TokenInputs == {<<>>} \cup {<<token>> : token \in RefreshTokens}

InitAuth ==
    /\ technicians = SeededTechnicians
    /\ tickets = <<>>
    /\ images = <<>>
    /\ events = <<>>
    /\ now = 0
    /\ resp = NoResponse
    /\ reqs = IdleReqs
    /\ \E active \in [UserIds -> BOOLEAN] :
          users = [u \in UserIds |-> UserRow(active[u])]
    /\ permissions = ALL_PERMISSIONS
    /\ roles = SeededRoles
    /\ user_roles = [u \in UserIds |-> {1}]
    /\ session_tokens = <<>>

NextAuth ==
    \/ \E u \in UserIds, ok \in BOOLEAN : authenticate_user(u, ok)
    \/ \E token \in RefreshTokens : refresh_access_token(token)
    \/ \E u \in Callers, token \in TokenInputs : logout(u, token)

SpecAuth == InitAuth /\ [][NextAuth]_vars

----------------------------------------------------------------------------
(* Automatic assignment over a fixed crew.  Every technician is active and of
   the one center, the tickets are CONFIRMED, of that center and held by
   nobody, created WorkloadDays or WorkloadDays - 1 days before the first
   request; the only requests are automatic assignments of CONFIRMED tickets
   that are inside the trailing window when the request is made. *)

MaxBalanceTickets == 6

BalanceTicketIds == 1..MaxBalanceTickets

TheCenter == CHOOSE c \in Centers : TRUE

InitBalance ==
    /\ technicians = [k \in TechIds |-> [is_active |-> TRUE, center_id |-> TheCenter]]
    /\ \E old \in 0..MaxBalanceTickets :
          tickets = [t \in BalanceTicketIds |->
                StoredTicket(CONFIRMED, NULL, DefaultVersion, TheCenter,
                             IF t <= old THEN 0 ELSE 1)]
    /\ events = [t \in BalanceTicketIds |-> StoredLog(CONFIRMED, NULL)]
    /\ images = [t \in BalanceTicketIds |-> <<>>]
    /\ now = WorkloadDays
    /\ resp = NoResponse
    /\ reqs = IdleReqs
    /\ SeededAccounts

InWindow(t) == tickets[t].created_at >= now - WorkloadDays

NextBalance ==
    \/ \E t \in BalanceTicketIds, v \in Versions, u \in Users :
          /\ tickets[t].status = CONFIRMED
          /\ InWindow(t)
          /\ assign_ticket(t, NULL, TRUE, v, u)
    \/ Tick

SpecBalance == InitBalance /\ [][NextBalance]_vars

----------------------------------------------------------------------------
(* Deactivation and reactivation of users (api/admin.py), next to login,
   refresh and requests of the user concerned.  A second administrator is in
   the users table, since nobody can deactivate themselves. *)

LockUserIds == UserIds \cup {2}

MissingUser == 3

(* Mutant: the sessions of the deactivated user are left as they are *)
RevokeAll_none(user_id) == session_tokens

(* query(SessionToken).filter(user_id == user_id, revoked == False)
   .update({"revoked": True}) *)
RevokeAll(user_id) ==
    [i \in DOMAIN session_tokens |->
        IF i \in Unrevoked(user_id)
        THEN [session_tokens[i] EXCEPT !.revoked = TRUE]
        ELSE session_tokens[i]]

(* POST /admin/users/{user_id}/deactivate,
   Depends(require_permissions(["users.write"])) *)
deactivate_user_result(caller, user_id) ==
    IF require_permissions(caller, {"users.write"}) # 200
    THEN require_permissions(caller, {"users.write"})
    ELSE IF user_id \notin DOMAIN users THEN 404
    ELSE IF user_id = caller THEN 400
    ELSE 200

deactivate_user(caller, user_id) ==
    LET code == deactivate_user_result(caller, user_id) IN
    /\ IF code = 200
       THEN /\ users' = [users EXCEPT ![user_id].is_active = FALSE]
            /\ session_tokens' = RevokeAll(user_id)
       ELSE UNCHANGED <<users, session_tokens>>
    /\ resp' = Response("deactivate", user_id, code, code)
    /\ UNCHANGED <<desk, permissions, roles, user_roles>>

(* POST /admin/users/{user_id}/reactivate,
   Depends(require_permissions(["users.write"])) *)
reactivate_user_result(caller, user_id) ==
    IF require_permissions(caller, {"users.write"}) # 200
    THEN require_permissions(caller, {"users.write"})
    ELSE IF user_id \notin DOMAIN users THEN 404
    ELSE 200

reactivate_user(caller, user_id) ==
    LET code == reactivate_user_result(caller, user_id) IN
    /\ IF code = 200
       THEN users' = [users EXCEPT ![user_id].is_active = TRUE]
       ELSE UNCHANGED users
    /\ resp' = Response("reactivate", user_id, code, code)
    /\ UNCHANGED <<desk, permissions, roles, user_roles, session_tokens>>

LockCallers == LockUserIds \cup {Anonymous}

(* The seeded store with two administrators, both active, nobody logged in *)
InitLock ==
    /\ technicians = SeededTechnicians
    /\ tickets = <<>>
    /\ images = <<>>
    /\ events = <<>>
    /\ now = 0
    /\ resp = NoResponse
    /\ reqs = IdleReqs
    /\ users = [u \in LockUserIds |-> UserRow(TRUE)]
    /\ permissions = ALL_PERMISSIONS
    /\ roles = SeededRoles
    /\ user_roles = [u \in LockUserIds |-> {1}]
    /\ session_tokens = <<>>

NextLock ==
    \/ \E u \in UserIds, ok \in BOOLEAN : authenticate_user(u, ok)
    \/ \E token \in RefreshTokens : refresh_access_token(token)
    \/ \E u \in LockCallers : get_users(u)
    \/ \E u \in LockCallers, t \in LockUserIds \cup {MissingUser} : deactivate_user(u, t)
    \/ \E u \in LockCallers, t \in LockUserIds \cup {MissingUser} : reactivate_user(u, t)

SpecLock == InitLock /\ [][NextLock]_vars

----------------------------------------------------------------------------
(* Two-factor authentication: POST /auth/2fa/setup, /2fa/verify and
   /2fa/disable, each behind get_current_active_user *)

(* Mutant: the endpoint does not look at is_2fa_enabled *)
setup_2fa_result_always(caller) ==
    IF ~Authenticated(caller) THEN 401 ELSE 200

setup_2fa_result(caller) ==
    IF ~Authenticated(caller) THEN 401
    ELSE IF users[caller].is_2fa_enabled THEN 400
    ELSE 200

(* setup_2fa: a fresh secret is stored; 2FA is not enabled by it *)
setup_2fa(caller) ==
    LET code == setup_2fa_result(caller) IN
    /\ IF code = 200
       THEN \E secret \in Secrets :
               users' = [users EXCEPT ![caller].twofa_secret = secret]
       ELSE UNCHANGED users
    /\ resp' = Response("2fa_setup", caller, code, code)
    /\ UNCHANGED <<desk, permissions, roles, user_roles, session_tokens>>

(* Mutant: any six digits enable 2FA once a secret is stored *)
verify_2fa_setup_result_any(caller, otp) ==
    IF ~Authenticated(caller) THEN 401
    ELSE IF users[caller].is_2fa_enabled THEN 400
    ELSE IF users[caller].twofa_secret = NULL THEN 400
    ELSE 200

(* verify_2fa_setup: 400 when 2FA is enabled already, when no secret is
   stored, or when the OTP is not the code of the stored secret *)
verify_2fa_setup_result(caller, otp) ==
    IF ~Authenticated(caller) THEN 401
    ELSE IF users[caller].is_2fa_enabled THEN 400
    ELSE IF users[caller].twofa_secret = NULL THEN 400
    ELSE IF ~verify_2fa_token(caller, otp) THEN 400
    ELSE 200

verify_2fa_setup(caller, otp) ==
    LET code == verify_2fa_setup_result(caller, otp) IN
    /\ IF code = 200
       THEN users' = [users EXCEPT ![caller].is_2fa_enabled = TRUE]
       ELSE UNCHANGED users
    /\ resp' = Response("2fa_verify", caller, code, code)
    /\ UNCHANGED <<desk, permissions, roles, user_roles, session_tokens>>

disable_2fa_result(caller) ==
    IF ~Authenticated(caller) THEN 401
    ELSE IF ~users[caller].is_2fa_enabled THEN 400
    ELSE 200

(* disable_2fa: the flag and the secret are cleared *)
disable_2fa(caller) ==
    LET code == disable_2fa_result(caller) IN
    /\ IF code = 200
       THEN users' = [users EXCEPT ![caller].is_2fa_enabled = FALSE,
                                   ![caller].twofa_secret = NULL]
       ELSE UNCHANGED users
    /\ resp' = Response("2fa_disable", caller, code, code)
    /\ UNCHANGED <<desk, permissions, roles, user_roles, session_tokens>>

Init2fa ==
    /\ technicians = SeededTechnicians
    /\ tickets = <<>>
    /\ images = <<>>
    /\ events = <<>>
    /\ now = 0
    /\ resp = NoResponse
    /\ reqs = IdleReqs
    /\ SeededAccounts

Next2fa ==
    \/ \E u \in Callers : setup_2fa(u)
    \/ \E u \in Callers, otp \in Otps : verify_2fa_setup(u, otp)
    \/ \E u \in Callers : disable_2fa(u)
    \/ \E u \in UserIds, ok \in BOOLEAN : authenticate_user(u, ok)

Spec2fa == Init2fa /\ [][Next2fa]_vars

----------------------------------------------------------------------------
(* Vocabulary of the properties *)

Terminal == {COMPLETED, CANCELED}

TransitionOps == {"confirm", "assign", "complete", "status"}

(* This step is a request of kind op on ticket t *)
Handled(op, t) ==
    /\ resp'.op = op
    /\ resp'.ticket_id = t
    /\ <<tickets, images, events, resp>> # <<tickets', images', events', resp'>>

(* The response of this step is to a request of kind op on ticket t (every
   operation writes its kind and ticket into the response) *)
Asked(op, t) == resp'.op = op /\ resp'.ticket_id = t

(* This step changes the status of ticket t *)
Moves(t) == tickets'[t].status # tickets[t].status

(* The tables are as they were *)
TablesUnchanged == UNCHANGED <<tickets, images, events, technicians>>

IsPrefix(a, b) == Len(a) <= Len(b) /\ SubSeq(b, 1, Len(a)) = a

----------------------------------------------------------------------------
(* C1: in every reachable state a COMPLETED ticket has at least one RECEIPT
   image.  Stated as the claim states it; PATCH /tickets/{id}/status moves
   IN_PROGRESS to COMPLETED without looking at the images. *)
C1_CompletedHasReceipt ==
    \A t \in DOMAIN tickets :
        tickets[t].status = COMPLETED => receipt_count(t) >= 1

(* C2, as claimed: once a ticket is COMPLETED or CANCELED, every confirm,
   assign, complete and status-change request on it is rejected and its status
   stays. *)
C2_TerminalRejectsEveryRequest ==
    [][\A t \in DOMAIN tickets :
          tickets[t].status \in Terminal =>
              /\ ~Moves(t)
              /\ \A op \in TransitionOps : Handled(op, t) => resp'.svc >= 400]_vars

(* C2, amended: once a ticket is COMPLETED or CANCELED its status never
   changes again; every confirm, assign and complete request on it, and every
   status-change request that names another status, is rejected (400, or 409
   on a stale version); the only request answered 200 is a status change that
   names no status or the current one, and it changes nothing. *)
C2_TerminalStays ==
    [][\A t \in DOMAIN tickets :
          tickets[t].status \in Terminal =>
              /\ ~Moves(t)
              /\ \A op \in {"confirm", "assign", "complete"} :
                    Handled(op, t) => resp'.svc \in {400, 409} /\ TablesUnchanged
              /\ Handled("status", t) => TablesUnchanged
              /\ \A s \in TicketStatus \ {tickets[t].status}, v \in Versions, u \in Users :
                    Asked("status", t) /\ update_ticket_status(t, s, v, u)
                    => resp'.svc \in {400, 409}]_vars

(* C2 witness: a request on a terminal ticket has been rejected with 400 *)
C2_Witness ==
    /\ resp.op \in {"confirm", "assign", "complete"}
    /\ resp.svc = 400
    /\ resp.ticket_id \in DOMAIN tickets
    /\ tickets[resp.ticket_id].status \in Terminal

----------------------------------------------------------------------------
(* C3, as claimed: every status change made by a ticket operation is an edge
   of ALLOWED_TRANSITIONS. *)
C3_EveryChangeInTable ==
    [][\A t \in DOMAIN tickets :
          Moves(t) => tickets'[t].status \in ALLOWED_TRANSITIONS[tickets[t].status]]_vars

(* C3, amended: every status change made by confirm_ticket, assign_ticket and
   update_ticket_status is an edge of ALLOWED_TRANSITIONS; complete_ticket
   moves a ticket from ASSIGNED or IN_PROGRESS to COMPLETED, and ASSIGNED ->
   COMPLETED is not an edge of the table.  A request for any other change is
   rejected: with 400 when its version is the current one (confirm and
   complete carry none), with 409 when assign or status change carry a stale
   one. *)
C3_ChangesFollowTheTable ==
    [][\A t \in DOMAIN tickets :
          LET old == tickets[t].status IN
          /\ Moves(t) =>
                \/ tickets'[t].status \in ALLOWED_TRANSITIONS[old]
                \/ /\ Handled("complete", t)
                   /\ old \in {ASSIGNED, IN_PROGRESS}
                   /\ tickets'[t].status = COMPLETED
          /\ \A u \in Users :
                /\ CONFIRMED \notin ALLOWED_TRANSITIONS[old] /\ Asked("confirm", t)
                      /\ confirm_ticket(t, u)
                      => resp'.svc = 400 /\ TablesUnchanged
                /\ old \notin {ASSIGNED, IN_PROGRESS} /\ Asked("complete", t)
                      /\ complete_ticket(t, u)
                      => resp'.svc = 400 /\ TablesUnchanged
                /\ \A v \in Versions :
                      /\ \A k \in TechIds \cup {NULL}, a \in BOOLEAN :
                            ASSIGNED \notin ALLOWED_TRANSITIONS[old] /\ Asked("assign", t)
                               /\ assign_ticket(t, k, a, v, u)
                            => /\ resp'.svc = (IF v = tickets[t].version THEN 400 ELSE 409)
                               /\ TablesUnchanged
                      /\ \A s \in TicketStatus \ ({old} \cup ALLOWED_TRANSITIONS[old]) :
                            Asked("status", t) /\ update_ticket_status(t, s, v, u)
                            => /\ resp'.svc = (IF v = tickets[t].version THEN 400 ELSE 409)
                               /\ TablesUnchanged]_vars

(* C3 witness: a status change outside the table has been refused with 400 *)
C3_Witness ==
    /\ resp.op = "status"
    /\ resp.svc = 400
    /\ resp.ticket_id \in DOMAIN tickets
    /\ tickets[resp.ticket_id].status = ASSIGNED

----------------------------------------------------------------------------
(* C4: every successful mutating transition leaves version = previous version
   + 1, and version never decreases.  Stated as the claim states it;
   confirm_ticket and complete_ticket change the status and leave version. *)
C4_VersionIncrementsOnTransition ==
    [][\A t \in DOMAIN tickets :
          /\ Moves(t) => tickets'[t].version = tickets[t].version + 1
          /\ tickets'[t].version >= tickets[t].version]_vars

(* C5: no mutating operation succeeds for a caller whose expected version is
   not the current one: every step that changes a ticket is an operation that
   takes the caller's version, carried out with the current version.  Stated
   as the claim states it; confirm and complete take no version at all. *)
C5_MutationsCarryCurrentVersion ==
    [][\A t \in DOMAIN tickets :
          tickets'[t] # tickets[t] =>
              \E u \in Users :
                 \/ \E k \in TechIds \cup {NULL}, a \in BOOLEAN :
                       assign_ticket(t, k, a, tickets[t].version, u)
                 \/ \E s \in TicketStatus :
                       update_ticket_status(t, s, tickets[t].version, u)]_vars

----------------------------------------------------------------------------
(* C6: an assign or a status-change request whose version is not the ticket's
   current version is answered 409 and leaves status, technician_id, version
   and the event log as they were, also when the requested transition is
   illegal (the version is checked first). *)
C6_StaleVersionConflicts ==
    [][\A t \in DOMAIN tickets, v \in Versions, u \in Users :
          v # tickets[t].version =>
              /\ \A k \in TechIds \cup {NULL}, a \in BOOLEAN :
                    Asked("assign", t) /\ assign_ticket(t, k, a, v, u)
                    => resp'.svc = 409 /\ resp'.code = 409 /\ TablesUnchanged
              /\ \A s \in TicketStatus \cup {NULL} :
                    Asked("status", t) /\ update_ticket_status(t, s, v, u)
                    => resp'.svc = 409 /\ resp'.code = 409 /\ TablesUnchanged]_vars

(* C6 witness: an assign request on a COMPLETED ticket (no transition to
   ASSIGNED is legal from there) has been answered 409 *)
C6_Witness ==
    /\ resp.op = "assign"
    /\ resp.code = 409
    /\ resp.ticket_id \in DOMAIN tickets
    /\ tickets[resp.ticket_id].status = COMPLETED

----------------------------------------------------------------------------
(* C8: every successful confirm, assign, complete and status change appends
   exactly one event to the ticket's log, with the acting user and the action
   of the operation, and leaves the earlier events as they were; a rejected
   request appends nothing; the log only grows. *)
EventAction(op) ==
    CASE op = "confirm"  -> "CONFIRM"
      [] op = "assign"   -> "ASSIGN"
      [] op = "complete" -> "COMPLETE"
      [] op = "status"   -> "STATUS_CHANGE"

Last(q) == q[Len(q)]

AppendsOne(t, action, user) ==
    /\ Len(events'[t]) = Len(events[t]) + 1
    /\ SubSeq(events'[t], 1, Len(events[t])) = events[t]
    /\ Last(events'[t]).action = action
    /\ Last(events'[t]).actor_user_id = user

C8_OneEventPerTransition ==
    [][\A t \in DOMAIN tickets :
          /\ IsPrefix(events[t], events'[t])
          /\ resp'.svc >= 400 => events' = events
          /\ \A u \in Users :
                /\ Asked("confirm", t) /\ resp'.svc = 200 /\ confirm_ticket(t, u)
                      => AppendsOne(t, "CONFIRM", u)
                /\ Asked("complete", t) /\ resp'.svc = 200 /\ complete_ticket(t, u)
                      => AppendsOne(t, "COMPLETE", u)
                /\ \A v \in Versions :
                      /\ \A k \in TechIds \cup {NULL}, a \in BOOLEAN :
                            Asked("assign", t) /\ resp'.svc = 200
                               /\ assign_ticket(t, k, a, v, u)
                            => AppendsOne(t, "ASSIGN", u)
                      /\ \A s \in TicketStatus :
                            Asked("status", t) /\ Moves(t)
                               /\ update_ticket_status(t, s, v, u)
                            => AppendsOne(t, "STATUS_CHANGE", u)
          /\ Moves(t) =>
                \E u \in Users, op \in TransitionOps :
                   Handled(op, t) /\ AppendsOne(t, EventAction(op), u)]_vars

(* C8 witness: a ticket has gone through confirm, assign, a status change and
   complete, and its log holds their four events in that order *)
C8_Witness ==
    \E t \in DOMAIN tickets :
        /\ resp.op = "complete" /\ resp.svc = 200 /\ resp.ticket_id = t
        /\ Len(events[t]) >= 4
        /\ \E i, j, k \in DOMAIN events[t] :
              /\ i < j /\ j < k /\ k < Len(events[t])
              /\ events[t][i].action = "CONFIRM"
              /\ events[t][j].action = "ASSIGN"
              /\ events[t][k].action = "STATUS_CHANGE"
        /\ Last(events[t]).action = "COMPLETE"
        /\ Last(events[t]).actor_user_id \in Users

----------------------------------------------------------------------------
(* C9, as claimed: every status change advances the ticket one step on the
   chain BOOKED -> CONFIRMED -> ASSIGNED -> IN_PROGRESS -> COMPLETED or
   cancels a non-terminal ticket; none moves back. *)
Chain == <<BOOKED, CONFIRMED, ASSIGNED, IN_PROGRESS, COMPLETED>>

Rank(s) == CHOOSE i \in DOMAIN Chain : Chain[i] = s

OneStepForward(old, new) ==
    old # CANCELED /\ new # CANCELED /\ Rank(new) = Rank(old) + 1

Cancels(old, new) == new = CANCELED /\ old \notin Terminal

C9_ForwardOrCancel ==
    [][\A t \in DOMAIN tickets :
          Moves(t) =>
              \/ OneStepForward(tickets[t].status, tickets'[t].status)
              \/ Cancels(tickets[t].status, tickets'[t].status)]_vars

(* C9, amended: every status change is one step forward on the chain, or the
   step ASSIGNED -> COMPLETED made by complete_ticket, or one step back from
   ASSIGNED to CONFIRMED (status change or confirm) or from IN_PROGRESS to
   ASSIGNED (status change or assign), or the cancelling of a non-terminal
   ticket; no ticket returns to BOOKED and none leaves COMPLETED or
   CANCELED. *)
C9_WorkflowSteps ==
    [][\A t \in DOMAIN tickets :
          LET old == tickets[t].status
              new == tickets'[t].status
          IN  Moves(t) =>
                 \/ OneStepForward(old, new)
                 \/ Cancels(old, new)
                 \/ old = ASSIGNED /\ new = COMPLETED /\ Handled("complete", t)
                 \/ old = ASSIGNED /\ new = CONFIRMED
                       /\ (Handled("status", t) \/ Handled("confirm", t))
                 \/ old = IN_PROGRESS /\ new = ASSIGNED
                       /\ (Handled("status", t) \/ Handled("assign", t))]_vars

(* C9 witness: a status change has moved an assigned ticket back to CONFIRMED
   (its technician_id is still that of the assignment) *)
C9_Witness ==
    \E t \in DOMAIN tickets :
        /\ resp.op = "status" /\ resp.svc = 200 /\ resp.ticket_id = t
        /\ tickets[t].status = CONFIRMED
        /\ tickets[t].technician_id # NULL
        /\ Last(events[t]).details = <<ASSIGNED, CONFIRMED>>

----------------------------------------------------------------------------
(* C7: of two requests that mutate the same ticket and carry the same
   expected version, at most one succeeds, under every interleaving of their
   read, check and write steps.  Stated as the claim states it; the version
   is compared on the row each request read, and both commits go through. *)
C7_AtMostOneCommits ==
    \A r1, r2 \in ReqIds :
        /\ r1 # r2
        /\ reqs[r1].ticket_id = reqs[r2].ticket_id
        /\ reqs[r1].version = reqs[r2].version
        => ~(reqs[r1].pc = "committed" /\ reqs[r2].pc = "committed")

----------------------------------------------------------------------------
(* C10: when an automatic assignment succeeds, the chosen technician is
   active, belongs to the ticket's center when the ticket has one, and has a
   workload (its ASSIGNED / IN_PROGRESS tickets created within the trailing
   window) no larger than that of any other candidate. *)
ClaimedWorkload(k) ==
    Cardinality({t \in DOMAIN tickets :
        /\ tickets[t].technician_id = k
        /\ tickets[t].status = ASSIGNED \/ tickets[t].status = IN_PROGRESS
        /\ now - tickets[t].created_at <= WorkloadDays})

Candidates(t) ==
    {k \in TechIds :
        /\ technicians[k].is_active
        /\ tickets[t].center_id = NULL \/ technicians[k].center_id = tickets[t].center_id}

AutoAssigned(t) ==
    /\ Handled("assign", t)
    /\ resp'.svc = 200
    /\ Last(events'[t]).details = <<tickets'[t].technician_id, "auto">>

C10_AutoAssignLeastLoaded ==
    [][\A t \in DOMAIN tickets :
          AutoAssigned(t) =>
              LET k == tickets'[t].technician_id IN
              /\ tickets'[t].status = ASSIGNED
              /\ k \in Candidates(t)
              /\ \A j \in Candidates(t) : ClaimedWorkload(k) <= ClaimedWorkload(j)]_vars

(* C10 witness: a ticket has been assigned automatically to a technician who
   holds no other ticket, while another candidate holds one within the
   window *)
C10_Witness ==
    \E t \in DOMAIN tickets :
        /\ resp.op = "assign" /\ resp.svc = 200 /\ resp.ticket_id = t
        /\ Last(events[t]).details = <<tickets[t].technician_id, "auto">>
        /\ \E j \in Candidates(t) \ {tickets[t].technician_id} :
              ClaimedWorkload(j) >= 1
        /\ \A t2 \in DOMAIN tickets \ {t} :
              tickets[t2].technician_id # tickets[t].technician_id

----------------------------------------------------------------------------
(* C11: assignment never installs an invalid technician.  A manual assignment
   that succeeds names a technician that exists and is active, and the ticket
   then carries exactly that id; an assignment that passes the version and
   transition checks fails with 400 when no id is given, with 404 when the id
   is unknown or inactive, and with 400 when automatic assignment finds no
   candidate, and a failed assignment leaves status, technician_id, version
   and the event log as they were. *)
ValidTechnician(k) == k \in TechIds /\ technicians[k].is_active

PassesChecks(t, v) ==
    /\ v = tickets[t].version
    /\ ASSIGNED \in ALLOWED_TRANSITIONS[tickets[t].status]

C11_NoInvalidTechnician ==
    [][\A t \in DOMAIN tickets, v \in Versions, u \in Users :
          /\ \A k \in TechIds \cup {NULL, UnknownTech} :
                Asked("assign", t) /\ assign_ticket(t, k, FALSE, v, u) =>
                   /\ resp'.svc = 200 =>
                         ValidTechnician(k) /\ tickets'[t].technician_id = k
                   /\ resp'.svc # 200 => TablesUnchanged
                   /\ PassesChecks(t, v) =>
                         resp'.svc = (IF k = NULL THEN 400
                                      ELSE IF ValidTechnician(k) THEN 200 ELSE 404)
          /\ \A k \in TechIds \cup {NULL, UnknownTech} :
                Asked("assign", t) /\ assign_ticket(t, k, TRUE, v, u) =>
                   /\ resp'.svc = 200 => ValidTechnician(tickets'[t].technician_id)
                   /\ resp'.svc # 200 => TablesUnchanged
                   /\ PassesChecks(t, v) /\ Candidates(t) = {} => resp'.svc = 400
          /\ tickets'[t].technician_id # tickets[t].technician_id =>
                ValidTechnician(tickets'[t].technician_id)]_vars

(* C11 witness: a manual assignment to an inactive technician has been
   answered 404 on a CONFIRMED ticket, which is still without technician *)
C11_Witness ==
    \E t \in DOMAIN tickets :
        /\ resp.op = "assign" /\ resp.svc = 404 /\ resp.ticket_id = t
        /\ tickets[t].status = CONFIRMED
        /\ tickets[t].technician_id = NULL
        /\ \E k \in TechIds : ~technicians[k].is_active

----------------------------------------------------------------------------
(* C18: every ticket whose status is ASSIGNED, IN_PROGRESS or COMPLETED has a
   technician (technician_id is not null).  Stated as the claim states it;
   PATCH /tickets/{id}/status moves CONFIRMED to ASSIGNED and writes only
   status and version. *)
C18_WorkedTicketHasTechnician ==
    \A t \in DOMAIN tickets :
        tickets[t].status \in {ASSIGNED, IN_PROGRESS, COMPLETED}
            => tickets[t].technician_id # NULL

(* C19: every ticket whose status is COMPLETED has its completion time set
   (completed_at is not null).  Stated as the claim states it; only
   complete_ticket writes completed_at, and PATCH /tickets/{id}/status moves
   IN_PROGRESS to COMPLETED. *)
C19_CompletedHasTime ==
    \A t \in DOMAIN tickets :
        tickets[t].status = COMPLETED => tickets[t].completed_at # NoTime


(* The dependencies an endpoint may stand behind *)
Dependencies == {"require_permissions", "require_perms"}

(* C12: a user holding the admin role passes every permission check.  Every
   request of an active user who has the role named admin is admitted (200)
   by require_permissions and by require_perms alike, whatever codes the
   admin role carries. *)
C12_AdminPassesEveryCheck ==
    [][\A u \in UserIds, d \in Dependencies, c \in ALL_PERMISSIONS :
          (/\ Asked(d, u)
           /\ Authenticated(u)
           /\ user_has_role(u, "admin")
           /\ read_request(u, d, {c})) => resp'.code = 200]_vars


(* The roles a user is assigned at present, and the codes they carry *)
AssignedRoles(u) == {r \in RoleIds : r \in user_roles[u] /\ roles[r] # NoRole}

AssignedCodes(u) ==
    {c \in permissions : \E r \in AssignedRoles(u) : c \in roles[r].permissions}

(* C13: after any sequence of role creations, updates, deletions and
   assignments, the effective permissions reported for a user
   (aggregate_permissions) are exactly the union of the permission codes of
   the roles assigned to the user at present: no code is missing, and none
   remains from a role that was changed, unassigned or deleted. *)
C13_EffectiveIsUnionOfRoles ==
    \A u \in UserIds :
        /\ aggregate_permissions(u) = AssignedCodes(u)
        /\ \A r \in user_roles[u] : roles[r] # NoRole

(* C13 witness: a role update has just changed the codes of one of two roles
   a user holds, and the two roles carry different codes *)
C13_Witness ==
    \E u \in UserIds, r, q \in RoleIds :
        /\ resp.op = "update_role" /\ resp.code = 200 /\ resp.ticket_id = r
        /\ {r, q} \subseteq user_roles[u]
        /\ roles[r].permissions \ roles[q].permissions # {}
        /\ roles[q].permissions \ roles[r].permissions # {}


(* A system role that SYSTEM_ROLE_CORE_PERMISSIONS names *)
CoreRole(r) ==
    /\ roles[r] # NoRole
    /\ roles[r].is_system
    /\ roles[r].name \in DOMAIN SYSTEM_ROLE_CORE_PERMISSIONS

CoreOf(r) == SYSTEM_ROLE_CORE_PERMISSIONS[roles[r].name]

(* C14: the core permissions of a system role cannot shrink.  A system role
   named in SYSTEM_ROLE_CORE_PERMISSIONS that holds its core permissions
   still holds them after every step; and an update_role whose
   permission_codes omit a core permission is answered 400 and leaves the
   role's name, description and permissions as they were. *)
C14_CorePermissionsKept ==
    [][/\ \A r \in RoleIds :
            (CoreRole(r) /\ CoreOf(r) \subseteq roles[r].permissions)
                => /\ roles'[r] # NoRole
                   /\ CoreOf(r) \subseteq roles'[r].permissions
       /\ \A r \in RoleIds :
            (Asked("update_role", r) /\ CoreRole(r))
                => \/ resp'.code = 400 /\ roles' = roles
                   \/ \A n \in NameInputs, d \in DescriptionInputs, c \in CodeInputs :
                         (Given(c) /\ ~(CoreOf(r) \subseteq c[1]))
                             => ~update_role(r, n, d, c)]_vars

(* C14 witness: the system role agent, which an earlier update gave another
   description and a code beyond its core, has just had an update refused *)
C14_Witness ==
    \E r \in RoleIds :
        /\ resp.op = "update_role" /\ resp.ticket_id = r /\ resp.code = 400
        /\ CoreRole(r)
        /\ roles[r].name = "agent"
        /\ roles[r].description = "d1"
        /\ roles[r].permissions = {"users.read", "tickets.write"}


(* C15 as stated: delete_role on a role that a user holds is answered 409
   and leaves the roles and the assignments as they were; so every role a
   user holds exists. *)
C15_HeldRoleAnswered409 ==
    [][/\ \A r \in RoleIds :
            (Asked("delete_role", r) /\ RoleUsers(r) # {} /\ delete_role(r))
                => /\ resp'.code = 409
                   /\ roles' = roles /\ user_roles' = user_roles
       /\ \A u \in UserIds : \A r \in user_roles'[u] : roles'[r] # NoRole]_vars

(* C15, amended: a role with assigned users cannot be deleted.  delete_role
   on a role that a user holds is refused and leaves the roles and the
   assignments as they were, with 409 for a role that is not a system role
   and with 400 for a system role, whose protection is checked first; so
   every role a user holds exists. *)
C15_HeldRoleNotDeleted ==
    [][/\ \A r \in RoleIds :
            (Asked("delete_role", r) /\ RoleUsers(r) # {} /\ delete_role(r))
                => /\ resp'.code = (IF roles[r].is_system THEN 400 ELSE 409)
                   /\ roles' = roles /\ user_roles' = user_roles
       /\ \A u \in UserIds : \A r \in user_roles'[u] : roles'[r] # NoRole]_vars

(* C15 witness: the deletion of a role that a user holds, and that is not a
   system role, has just been refused with 409 *)
C15_Witness ==
    \E r \in RoleIds :
        /\ resp.op = "delete_role" /\ resp.ticket_id = r /\ resp.code = 409
        /\ roles[r] # NoRole /\ ~roles[r].is_system
        /\ RoleUsers(r) # {}


(* C16: system roles are protected.  An update_role that gives a system role
   another name, and a delete_role on a system role, are answered 400 and
   change no role; no step removes a role with is_system = true or changes
   its name. *)
C16_SystemRoleProtected ==
    [][\A r \in RoleIds :
          (roles[r] # NoRole /\ roles[r].is_system)
              => /\ roles'[r] # NoRole
                 /\ roles'[r].name = roles[r].name
                 /\ (Asked("delete_role", r) /\ delete_role(r))
                        => resp'.code = 400 /\ roles' = roles
                 /\ Asked("update_role", r)
                        => \/ resp'.code = 400 /\ roles' = roles
                           \/ \A n \in RoleNames \ {roles[r].name},
                                 d \in DescriptionInputs, c \in CodeInputs :
                                   ~update_role(r, n, d, c)]_vars

(* C16 witness: the deletion of a system role that no user holds has just
   been refused with 400 *)
C16_Witness ==
    \E r \in RoleIds :
        /\ resp.op = "delete_role" /\ resp.ticket_id = r /\ resp.code = 400
        /\ roles[r] # NoRole /\ roles[r].is_system
        /\ RoleUsers(r) = {}


(* The caller holds neither the admin role nor a role that carries the code *)
Lacks(u, code) == ~user_has_role(u, "admin") /\ code \notin AssignedCodes(u)

(* The refusal owed to this caller of an endpoint that requires this code:
   401 without an active user, 403 for a user who lacks the code, and in both
   cases nothing written *)
Refused(caller, code) ==
    /\ ~(caller \in UserIds /\ users[caller].is_active)
          => resp'.code = 401 /\ UNCHANGED <<desk, accounts>>
    /\ (caller \in UserIds /\ users[caller].is_active /\ Lacks(caller, code))
          => resp'.code = 403 /\ UNCHANGED <<desk, accounts>>

(* C17: protected endpoints check authentication before authorization and
   change nothing on refusal.  A request without the access token of an
   active user is answered 401, also when the user named would lack the
   permission; a request of an active user who lacks the required permission
   (and does not hold admin, which passes every check of
   require_permissions) is answered 403; in both cases no ticket, role or
   user state changes. *)
C17_RefusalChangesNothing ==
    [][\A u \in Callers :
          /\ \A t \in TicketIds :
                (Asked("confirm", t) /\ confirm_ticket_endpoint(u, t))
                    => Refused(u, "tickets.write")
          /\ \A n \in RoleNames, c \in CodeLists :
                (resp'.op = "create_role" /\ create_role_endpoint(u, n, c))
                    => Refused(u, "roles.write")
          /\ \A r \in RoleIds :
                (Asked("delete_role", r) /\ delete_role_endpoint(u, r))
                    => Refused(u, "roles.write")
          /\ (resp'.op = "get_users" /\ get_users(u))
                => Refused(u, "users.read")]_vars

(* C17 witness: an active user holding only the role agent, which does not
   carry roles.write, has just been refused the deletion of a role that could
   have been deleted, while a booked ticket is stored *)
C17_Witness ==
    \E r \in RoleIds :
        /\ resp.op = "delete_role" /\ resp.ticket_id = r /\ resp.code = 403
        /\ users[1].is_active /\ user_roles[1] = {2}
        /\ roles[r] # NoRole /\ ~roles[r].is_system
        /\ Len(tickets) = 1 /\ tickets[1].status = BOOKED


(* refresh_access_token with this token can succeed in this state *)
Accepted(token) ==
    /\ verify_token(token)
    /\ users[token.sub].is_active
    /\ \E i \in Unrevoked(token.sub) :
          verify_refresh_token_hash(token, session_tokens[i].refresh_token_hash)

(* C20: logout revokes the refresh token.  After logout_user was called for
   a user with the refresh token R of one of the user's sessions,
   refresh_access_token with R fails, however many sessions the user has
   open. *)
C20_LogoutRevokesToken ==
    [][\A u \in UserIds, token \in RefreshTokens :
          (/\ Asked("logout", u)
           /\ Authenticated(u)
           /\ token.sub = u
           /\ logout(u, <<token>>)) => ~Accepted(token)']_vars


(* The token is the one stored for an unrevoked session of its user *)
Live(token) ==
    /\ verify_token(token)
    /\ \E i \in Unrevoked(token.sub) :
          verify_refresh_token_hash(token, session_tokens[i].refresh_token_hash)

(* C21: a refresh token of an unrevoked, unexpired session of an active user
   is accepted.  refresh_access_token with such a token answers 200 and puts
   a new token in its session, however many other sessions the user has. *)
C21_LiveTokenAccepted ==
    [][\A token \in RefreshTokens :
          (/\ Asked("refresh", token.n)
           /\ Live(token)
           /\ users[token.sub].is_active
           /\ refresh_access_token(token))
              => /\ resp'.code = 200
                 /\ ~Live(token)']_vars


(* C22: a role created through create_role is never a system role, whatever
   is_system the request carries, and no operation of the role API (create,
   update, delete, assign) changes is_system of a role that exists. *)
C22_IsSystemNotSettable ==
    [][/\ resp'.op = "create_role"
            => \A n \in RoleNames, c \in CodeLists :
                  (create_role(n, "d0", TRUE, c) /\ resp'.code = 200)
                      => /\ roles'[resp'.ticket_id] # NoRole
                         /\ ~roles'[resp'.ticket_id].is_system
       /\ \A r \in RoleIds :
            /\ (roles[r] = NoRole /\ roles'[r] # NoRole) => ~roles'[r].is_system
            /\ (roles[r] # NoRole /\ roles'[r] # NoRole)
                 => roles'[r].is_system = roles[r].is_system]_vars

(* C22 witness: a role has just been created beside the system roles, and it
   is not a system role *)
C22_Witness ==
    /\ resp.op = "create_role" /\ resp.code = 200
    /\ roles[resp.ticket_id] # NoRole /\ ~roles[resp.ticket_id].is_system
    /\ \E r \in RoleIds : roles[r] # NoRole /\ roles[r].is_system


(* A role of the table has this name *)
NameUsed(n) == \E r \in RoleIds : roles[r] # NoRole /\ roles[r].name = n

(* C23: role names are unique.  Creating a role under a name that a role of
   the table has is answered 400 and creates no role; and after every step
   no two roles have the same name. *)
C23_RoleNamesUnique ==
    [][/\ resp'.op = "create_role"
            => \A n \in RoleNames, s \in BOOLEAN, c \in CodeLists :
                  (NameUsed(n) /\ create_role(n, "d0", s, c))
                      => resp'.code = 400 /\ roles' = roles
       /\ \A r, q \in RoleIds :
            (r # q /\ roles'[r] # NoRole /\ roles'[q] # NoRole)
                => roles'[r].name # roles'[q].name]_vars

(* C23 witness: a creation has just been refused with 400 while the table
   holds two roles that were created, under different names *)
C23_Witness ==
    /\ resp.op = "create_role" /\ resp.code = 400
    /\ \E r, q \in RoleIds :
          /\ r # q
          /\ roles[r] # NoRole /\ ~roles[r].is_system
          /\ roles[q] # NoRole /\ ~roles[q].is_system
          /\ roles[r].name # roles[q].name


(* The requests of the ticket endpoints that write *)
TicketOps == {"confirm", "assign", "upload", "complete", "status"}

(* C24: every ticket endpoint request is all-or-nothing.  A confirm, assign,
   upload, complete or status-change request that is answered with an error
   (a status code of 400 or more) leaves the tickets, their images and their
   event logs as they were. *)
C24_ErrorLeavesTicket ==
    [][(resp'.op \in TicketOps /\ resp'.code >= 400)
          => UNCHANGED <<tickets, images, events>>]_vars


(* C27: an upload changes nothing but the image list and the event log.  An
   upload that is stored adds exactly one image, of type RECEIPT, and one
   UPLOAD_RECEIPT event to the ticket and leaves every ticket row (status,
   version, technician_id, completed_at) as it was, whatever the status; an
   upload for a ticket id that does not exist is answered 404 and adds
   nothing. *)
C27_UploadFrame ==
    [][\A t \in TicketIds :
          Asked("upload", t)
              => /\ resp'.svc = 200
                    => /\ t \in DOMAIN tickets
                       /\ Len(images'[t]) = Len(images[t]) + 1
                       /\ IsPrefix(images[t], images'[t])
                       /\ Last(images'[t]).type = RECEIPT
                       /\ \E u \in Users : AppendsOne(t, "UPLOAD_RECEIPT", u)
                       /\ tickets' = tickets
                 /\ t \notin DOMAIN tickets
                    => /\ resp'.code = 404
                       /\ UNCHANGED <<tickets, images, events>>]_vars

(* C27 witness: an image has just been stored for a ticket in a terminal
   status *)
C27_Witness ==
    \E t \in DOMAIN tickets :
        /\ resp.op = "upload" /\ resp.ticket_id = t /\ resp.svc = 200
        /\ tickets[t].status \in Terminal
        /\ Len(images[t]) = 1 /\ images[t][1].type = RECEIPT
        /\ Last(events[t]).action = "UPLOAD_RECEIPT"


(* The number of CONFIRM events in a log *)
ConfirmEvents(log) == Cardinality({i \in DOMAIN log : log[i].action = "CONFIRM"})

(* C30: a CONFIRM event appears in a ticket's log only through a successful
   confirm of that ticket.  A public booking creates a ticket in status
   BOOKED whose log holds no CONFIRM event, and in every other step a log
   gains a CONFIRM event only when the step is a confirm of that ticket that
   the service carried out. *)
C30_ConfirmEventOnlyByConfirm ==
    [][/\ resp'.op = "booking"
            => /\ Len(tickets') = Len(tickets) + 1
               /\ tickets'[Len(tickets')].status = BOOKED
               /\ ConfirmEvents(events'[Len(tickets')]) = 0
       /\ \A t \in DOMAIN tickets :
            ConfirmEvents(events'[t]) > ConfirmEvents(events[t])
                => Asked("confirm", t) /\ resp'.svc = 200]_vars


----------------------------------------------------------------------------
(* The largest and the smallest workload of the technicians differ by at
   most one *)
Balanced ==
    \A j, k \in TechIds :
        get_technician_workload(j) <= get_technician_workload(k) + 1

(* Every ticket a technician holds is still inside the trailing window *)
NoneAgedOut ==
    \A t \in DOMAIN tickets : tickets[t].technician_id # NULL => InWindow(t)

(* C29, as stated: after every automatic assignment of a CONFIRMED ticket of
   the window to a crew that started with no work, the largest and the
   smallest workload differ by at most one. *)
C29_BalancedAfterAutoAssign ==
    [][\A t \in DOMAIN tickets : AutoAssigned(t) => Balanced']_vars

(* C29, amended: the workloads differ by at most one after every automatic
   assignment for as long as no ticket that a technician holds has left the
   trailing window. *)
C29_BalancedWhileNoneAgedOut ==
    [][\A t \in DOMAIN tickets :
          AutoAssigned(t) /\ NoneAgedOut' => Balanced']_vars

(* C29 witness: after an automatic assignment one technician holds two
   tickets of the window and another holds one *)
C29_Witness ==
    /\ resp.op = "assign" /\ resp.svc = 200
    /\ NoneAgedOut
    /\ \E j, k \in TechIds :
          get_technician_workload(j) = 2 /\ get_technician_workload(k) = 1


----------------------------------------------------------------------------
(* C25: a deactivated user is locked out until reactivated.  While is_active
   is false the user's login, the refresh of any of the user's tokens and
   every request made with the user's access token are answered 401, and the
   flag comes back only through a reactivation that was carried out; a
   deactivation that is carried out leaves the target inactive with no
   unrevoked session; and an administrator who names their own account is
   answered 400 and stays active. *)
C25_DeactivatedLockedOut ==
    [][/\ \A u \in LockUserIds :
            ~users[u].is_active =>
                /\ \A ok \in BOOLEAN :
                      u \in UserIds /\ authenticate_user(u, ok) => resp'.code = 401
                /\ \A token \in RefreshTokens :
                      token.sub = u /\ refresh_access_token(token) => resp'.code = 401
                /\ get_users(u) => resp'.code = 401
                /\ \A t \in LockUserIds \cup {MissingUser} :
                      deactivate_user(u, t) \/ reactivate_user(u, t)
                          => resp'.code = 401
                /\ users'[u].is_active
                      => Asked("reactivate", u) /\ resp'.code = 200
       /\ \A c \in LockCallers, t \in LockUserIds :
            deactivate_user(c, t) /\ resp'.code = 200
                => ~users'[t].is_active /\ Unrevoked(t)' = {}
       /\ \A c \in LockUserIds :
            Authenticated(c) /\ deactivate_user(c, c)
                => resp'.code = 400 /\ users'[c].is_active]_vars

(* C25 witness: a user who had logged in was deactivated, the session is
   revoked, and a refresh with the user's token has just been answered 401 *)
C25_Witness ==
    \E u \in UserIds :
        /\ ~users[u].is_active
        /\ \E i \in DOMAIN session_tokens :
              session_tokens[i].user_id = u /\ session_tokens[i].revoked
        /\ resp.op = "refresh" /\ resp.code = 401


----------------------------------------------------------------------------
(* C28: two-factor state is consistent.  In every state a user with 2FA
   enabled has a secret; the flag turns on only in a verify_2fa_setup request
   of that user that was accepted, made while a secret was stored, and the
   secret is the same before and after; no step changes the secret of a user
   who has 2FA enabled except a disable_2fa request that was carried out,
   after which the flag is off and the secret is gone; and a setup request
   made while 2FA is enabled is answered 400. *)
C28_TwoFactorConsistent ==
    [][\A u \in DOMAIN users :
          /\ users[u].is_2fa_enabled => users[u].twofa_secret # NULL
          /\ users'[u].is_2fa_enabled => users'[u].twofa_secret # NULL
          /\ ~users[u].is_2fa_enabled /\ users'[u].is_2fa_enabled
                => /\ Asked("2fa_verify", u) /\ resp'.code = 200
                   /\ users[u].twofa_secret # NULL
                   /\ users'[u].twofa_secret = users[u].twofa_secret
                   /\ \A otp \in Otps :
                         verify_2fa_setup(u, otp)
                             => totp_verify(users[u].twofa_secret, otp)
          /\ users[u].is_2fa_enabled
             /\ users'[u].twofa_secret # users[u].twofa_secret
                => /\ Asked("2fa_disable", u) /\ resp'.code = 200
                   /\ users'[u].twofa_secret = NULL
          /\ Asked("2fa_disable", u) /\ resp'.code = 200
                => ~users'[u].is_2fa_enabled /\ users'[u].twofa_secret = NULL
          /\ users[u].is_2fa_enabled /\ setup_2fa(u)
                => resp'.code = 400 /\ users'[u] = users[u]]_vars

(* C28 witness: a user with 2FA enabled has just been refused a new setup *)
C28_Witness ==
    \E u \in DOMAIN users :
        /\ users[u].is_2fa_enabled
        /\ users[u].twofa_secret \in Secrets
        /\ resp = Response("2fa_setup", u, 400, 400)


----------------------------------------------------------------------------
(* The refresh token is the one stored in row i *)
StoredIn(token, i) ==
    verify_refresh_token_hash(token, session_tokens[i].refresh_token_hash)

(* C26: refresh tokens are rotated and single-use.  Right after a refresh
   that succeeded, a refresh with the token it returned is accepted; a token
   that was issued and has since been replaced in its row, or whose row is
   revoked, is refused; and a revoked row stays as it is. *)
C26_RotationSingleUse ==
    [][/\ resp.op = "refresh" /\ resp.code = 200
            => \A u \in UserIds :
                  refresh_access_token([sub |-> u, n |-> LastToken])
                      => resp'.code = 200
       /\ \A token \in RefreshTokens :
            /\ verify_token(token)
            /\ \A i \in DOMAIN session_tokens :
                  StoredIn(token, i) => session_tokens[i].revoked
            /\ refresh_access_token(token)
            => resp'.code = 401
       /\ \A i \in DOMAIN session_tokens :
            session_tokens[i].revoked => session_tokens'[i] = session_tokens[i]]_vars

====
